---------------------------- MODULE Spec2Model ----------------------------
(***************************************************************************)
(* State-machine model of the Framework Graph Model of src/sabsa-sbd.py:   *)
(* the three node tiers, the connection list, validate_node_input,         *)
(* save_version, the Management handlers of create_interactive_framework   *)
(* and the Restore Version handler of main.                                *)
(*                                                                         *)
(* Python objects are modelled by reference.  heap maps an object id to    *)
(* the value of a tier dict (a function from node names to node records)   *)
(* or of a connection list (a sequence of pairs).  The framework_data dict *)
(* of the session and the "data" dict of every version entry are records   *)
(* of four object ids, so that dict.copy() (a shallow copy) and the        *)
(* pickled copy handed out by st.cache_data keep their different meanings. *)
(* A node's own attribute dict is only ever reachable through the one tier *)
(* dict that holds it, so it is kept inside the tier dict's value.         *)
(*                                                                         *)
(* One action is one rerun of the script caused by one widget interaction. *)
(* Coordinates are integers; the initial framework is the part of the      *)
(* literal of lines 157-255 whose coordinates are whole numbers and that   *)
(* holds the name present in two tiers and the self-referential edge.      *)
(*                                                                         *)
(* The sign-on and the page routing of the enterprise platform,            *)
(* src/Claudeapp.py, are modelled by PlatformSpec on the variables         *)
(* authenticated, user_role, username, selected_page and rendered.         *)
(***************************************************************************)
EXTENDS Integers, Sequences, FiniteSets, TLC

VARIABLES
    user,             \* st.session_state.user
    main_view_mode,   \* the "Select View" radio of main
    view_mode,        \* the "Mode" radio of create_interactive_framework
    heap,             \* object id -> value of a tier dict or of a connection list
    framework_data,   \* st.session_state.framework_data: key -> object id
    version_history,  \* st.session_state.version_history
    last,             \* the last command issued, its inputs and what it rendered
    authenticated,    \* Claudeapp.py: st.session_state.authenticated
    user_role,        \* Claudeapp.py: st.session_state.user_role
    username,         \* Claudeapp.py: st.session_state.username
    selected_page,    \* Claudeapp.py: the "Navigation" selectbox
    rendered,         \* Claudeapp.py: what the last run of main put on the page
    pending           \* InterleavedSpec: caller -> the handler run it has begun

\* the session of the platform app
platform_vars == <<authenticated, user_role, username, selected_page, rendered>>

vars == <<user, main_view_mode, view_mode, heap, framework_data,
          version_history, last, platform_vars, pending>>

(***************************************************************************)
(* Bounds of the model                                                     *)
(***************************************************************************)
\* save_version is not run once the history holds this many entries
MaxVersions == 2

(***************************************************************************)
(* Program constants                                                       *)
(***************************************************************************)
XMin == 0
XMax == 10
YMin == 0
YMax == 5

IAM == "Identity & Access Management"
VM == "Vulnerability Management"
AUTHZ == "Authorization"
CM == "Change Management"
RRM == "Role/Rule Management"

Tiers == {"main_domains", "secondary_nodes", "process_nodes"}
Keys == Tiers \cup {"connections"}

MainColor == "#1e3a8a"
SecondaryColor == "#3b82f6"
ProcessColor == "#60a5fa"

\* risk scores are kept in hundredths (0.65 is 65)
MainNode(x, y, d, r, c) ==
    [x |-> x, y |-> y, color |-> MainColor, description |-> d,
     risk_score |-> r, compliance |-> c]

SecondaryNode(x, y, p, d, r, c) ==
    [x |-> x, y |-> y, color |-> SecondaryColor, parent |-> p, description |-> d,
     risk_score |-> r, compliance |-> c]

ProcessNode(x, y, d, r, c) ==
    [x |-> x, y |-> y, color |-> ProcessColor, type |-> "process", description |-> d,
     risk_score |-> r, compliance |-> c]

InitialMainDomains ==
    (IAM :> MainNode(3, 5, "Controls access and identity", 70, "NIST 800-53")) @@
    (VM :> MainNode(7, 5, "Handles vulnerabilities", 75, "NIST 800-53"))

InitialSecondaryNodes ==
    (AUTHZ :> SecondaryNode(3, 4, IAM, "Controls access permissions", 65, "NIST 800-53")) @@
    (CM :> SecondaryNode(7, 4, VM, "Manages security changes", 65, "NIST 800-53"))

InitialProcessNodes ==
    (RRM :> ProcessNode(3, 1, "Manages access roles", 65, "NIST 800-53")) @@
    (CM :> ProcessNode(6, 1, "Controls change processes", 65, "NIST 800-53"))

InitialConnections ==
    << <<IAM, AUTHZ>>, <<VM, CM>>, <<AUTHZ, RRM>>, <<CM, CM>> >>

\* the value of the literal assigned to st.session_state.framework_data
InitialFrameworkData ==
    [main_domains |-> InitialMainDomains,
     secondary_nodes |-> InitialSecondaryNodes,
     process_nodes |-> InitialProcessNodes,
     connections |-> InitialConnections]

(***************************************************************************)
(* The heap                                                                *)
(***************************************************************************)
Range(s) == {s[i] : i \in DOMAIN s}

Min(S) == CHOOSE x \in S : \A y \in S : x <= y

\* the k smallest object ids that h does not use, in increasing order
RECURSIVE FreshIds(_, _)
FreshIds(used, k) ==
    IF k = 0 THEN <<>>
    ELSE LET id == Min((1..(Cardinality(used) + 1)) \ used)
         IN <<id>> \o FreshIds(used \cup {id}, k - 1)

\* the object ids a dict of four references holds
Refs(d) == {d[k] : k \in Keys}

\* the graph state a dict of four references denotes in heap h
Deref(h, d) == [k \in Keys |-> h[d[k]]]

\* objects no longer referenced by the session are reclaimed
Collect(h, fd, vh) ==
    LET live == Refs(fd) \cup UNION {Refs(vh[i].data) : i \in DOMAIN vh}
    IN [id \in DOMAIN h \cap live |-> h[id]]

(***************************************************************************)
(* get_framework_data, validate_node_input, save_version                   *)
(***************************************************************************)
\* What st.cache_data holds for get_framework_data.  The function takes no
\* argument, so there is one cache entry; it is computed by the first call,
\* which the first run of the script makes before any widget can be used,
\* when the session's framework_data is still the initial literal.
CachedFrameworkData == InitialFrameworkData

\* get_framework_data without the copy made by the cache: the caller gets
\* the session's own objects
get_framework_data_uncached(h) == [heap |-> h, data |-> framework_data]

\* get_framework_data is decorated with st.cache_data: the caller gets its
\* own unpickled copy of the cached value, four new objects.  The result is
\* the heap with those objects and the dict of references to them.
get_framework_data(h) ==
    LET ids == FreshIds(DOMAIN h, 4)
        d == [main_domains |-> ids[1], secondary_nodes |-> ids[2],
              process_nodes |-> ids[3], connections |-> ids[4]]
    IN [heap |-> [id \in DOMAIN h \cup Range(ids) |->
                     IF id \in DOMAIN h THEN h[id]
                     ELSE CachedFrameworkData[CHOOSE k \in Keys : d[k] = id]],
        data |-> d]

\* node_name.strip() on the names the model uses
strip(s) == IF s = " " THEN "" ELSE s

\* the uniqueness test made against the main domains alone
existing_nodes_main_only(h, fd) == DOMAIN h[fd.main_domains]

\* the keys of {**main_domains, **secondary_nodes, **process_nodes} of the
\* session's framework_data
existing_nodes(h, fd) ==
    DOMAIN h[fd.main_domains] \cup DOMAIN h[fd.secondary_nodes]
        \cup DOMAIN h[fd.process_nodes]

ErrEmpty == "Node name cannot be empty."
ErrUnique == "Node name must be unique."
ErrBounds == "Position coordinates must be within bounds (X: 0-10, Y: 0-5)."
ErrParent == "Secondary nodes must have a parent domain."
ErrSame == "Source and target nodes cannot be the same."
ErrExists == "Connection already exists."

\* the bounds test with the Y range forgotten
OutOfBounds_x_only(x, y) == x < XMin \/ x > XMax

OutOfBounds(x, y) == x < XMin \/ x > XMax \/ y < YMin \/ y > YMax

\* validate_node_input without the rule on the parent of a secondary node
validate_node_input_no_parent_rule(h, fd, node_name, node_x, node_y, parent_node, node_type, existing_node) ==
    (IF node_name = "" \/ strip(node_name) = "" THEN <<ErrEmpty>> ELSE <<>>)
    \o (IF ~existing_node /\ node_name \in existing_nodes(h, fd) THEN <<ErrUnique>> ELSE <<>>)
    \o (IF OutOfBounds(node_x, node_y) THEN <<ErrBounds>> ELSE <<>>)

validate_node_input(h, fd, node_name, node_x, node_y, parent_node, node_type, existing_node) ==
    (IF node_name = "" \/ strip(node_name) = "" THEN <<ErrEmpty>> ELSE <<>>)
    \o (IF ~existing_node /\ node_name \in existing_nodes(h, fd) THEN <<ErrUnique>> ELSE <<>>)
    \o (IF OutOfBounds(node_x, node_y) THEN <<ErrBounds>> ELSE <<>>)
    \o (IF node_type = "Secondary Node" /\ parent_node = "None" THEN <<ErrParent>> ELSE <<>>)

\* save_version appends an entry whose data is framework_data.copy(): a new
\* dict holding the same four objects.  The id stands for the first eight
\* characters of a uuid4, taken to be new each time; the timestamp is left out.
save_version(vh, fd, u) ==
    Append(vh, [version_id |-> Len(vh) + 1, data |-> fd, user |-> u.username])

(***************************************************************************)
(* Inputs the model draws from                                             *)
(***************************************************************************)
\* the value of parent_node when the node type is not "Secondary Node"
PyNone == "<None>"

Roles == {"viewer", "architect", "admin"}

Views == {"Interactive Framework", "Detailed Analysis", "Version History", "About"}

\* show_detailed_view calls create_interactive_framework, so both views
\* render the sidebar controls
FrameworkViews == {"Interactive Framework", "Detailed Analysis"}

NodeTypes == {"Main Domain", "Secondary Node", "Process Node"}

AddInput(t, n, x, y, p, c) ==
    [node_type |-> t, node_name |-> n, node_x |-> x, node_y |-> y,
     parent_node |-> p, connect_to |-> c,
     node_description |-> "", node_risk_score |-> 50, node_compliance |-> "ISO 27001"]

\* the Add Node forms that are submitted
AddNodeInputs ==
    { AddInput("Process Node", "Auth", 2, 3, PyNone, <<>>),
      AddInput("Main Domain", "Auth", 2, 3, PyNone, <<>>),
      AddInput("Secondary Node", "Auth", 2, 3, IAM, <<AUTHZ, RRM>>),
      AddInput("Secondary Node", "Auth", 2, 3, "None", <<>>),
      AddInput("Process Node", AUTHZ, 2, 3, PyNone, <<RRM>>),
      AddInput("Secondary Node", AUTHZ, 2, 4, IAM, <<>>),
      AddInput("Process Node", "", 11, 2, PyNone, <<>>),
      AddInput("Process Node", " ", 2, 3, PyNone, <<>>),
      AddInput("Main Domain", "Auth", 2, 6, PyNone, <<>>),
      AddInput("Process Node", "Auth", 0 - 1, 0, PyNone, <<>>),
      AddInput("Secondary Node", CM, 2, 0 - 1, "None", <<>>) }

\* the positions a Move Node form is submitted with
MovePositions == { <<2, 3>>, <<11, 2>>, <<2, 6>>, <<0 - 1, 0>>, <<0, 0 - 1>> }

\* the names Move Node is tried with
MovedNodes == {IAM, CM, "Auth"}

\* the names Delete Node is tried with
PickedNodes == {IAM, AUTHZ, CM, RRM, "Auth"}

\* the connections Remove Connection is tried with
RemovedPairs == { <<AUTHZ, RRM>>, <<RRM, AUTHZ>>, <<CM, CM>>, <<IAM, RRM>> }

\* the source and target pairs Add Connection is tried with
PickedPairs ==
    { <<IAM, RRM>>, <<RRM, IAM>>, <<AUTHZ, RRM>>, <<RRM, AUTHZ>>,
      <<CM, CM>>, <<IAM, IAM>>, <<"Auth", RRM>> }

(***************************************************************************)
(* The state after the first run of the script                             *)
(***************************************************************************)
(***************************************************************************)
(* Enterprise platform (src/Claudeapp.py): EnterpriseAuth and main         *)
(***************************************************************************)
\* EnterpriseAuth.roles (lines 126-133)
roles ==
    [CISO |-> <<"read", "write", "admin", "approve">>,
     Security_Architect |-> <<"read", "write", "design">>,
     Security_Manager |-> <<"read", "write", "manage">>,
     Security_Analyst |-> <<"read", "analyze">>,
     Auditor |-> <<"read", "audit">>,
     Executive |-> <<"read", "executive">>]

\* check_permission with the test of authenticated left out
check_permission_role_only(auth, role, required_permission) ==
    LET user_permissions == IF role \in DOMAIN roles THEN roles[role] ELSE <<>>
    IN required_permission \in Range(user_permissions)

\* EnterpriseAuth.check_permission (lines 144-148) for a session whose
\* authenticated and user_role are auth and role
check_permission(auth, role, required_permission) ==
    IF ~auth THEN FALSE
    ELSE LET user_permissions == IF role \in DOMAIN roles THEN roles[role] ELSE <<>>
         IN required_permission \in Range(user_permissions)

\* navigation_options (lines 1198-1205)
navigation_options ==
    [CISO |-> <<"Executive Dashboard", "Risk Management", "Compliance",
                "Metrics & KPIs", "System Integrations", "SABSA Framework">>,
     Security_Architect |-> <<"SABSA Framework", "Risk Management",
                "System Integrations", "Threat Intelligence", "Metrics & KPIs">>,
     Security_Manager |-> <<"Risk Management", "Compliance", "Metrics & KPIs",
                "Threat Intelligence", "SABSA Framework">>,
     Security_Analyst |-> <<"Threat Intelligence", "Risk Management",
                "SABSA Framework", "Metrics & KPIs">>,
     Auditor |-> <<"Compliance", "Risk Management", "Metrics & KPIs",
                "SABSA Framework">>,
     Executive |-> <<"Executive Dashboard", "Metrics & KPIs", "Risk Management">>]

\* navigation_options.get(st.session_state.user_role, ["SABSA Framework"])
available_options(role) ==
    IF role \in DOMAIN navigation_options THEN navigation_options[role]
    ELSE <<"SABSA Framework">>

\* the permission each module asks check_permission for (lines 309, 416,
\* 553, 686, 1012); create_metrics_dashboard and the SABSA Framework branch
\* ask for none
required_permission ==
    [p \in {"Executive Dashboard", "Risk Management", "Compliance",
            "Threat Intelligence", "System Integrations"} |->
        CASE p = "Executive Dashboard" -> "executive"
          [] p = "Risk Management" -> "manage"
          [] p = "Compliance" -> "audit"
          [] p = "Threat Intelligence" -> "analyze"
          [] p = "System Integrations" -> "admin"]

LoginForm == [screen |-> "Login", access |-> "none"]

\* the page routing of lines 1210-1227: the module of the page runs and
\* shows its content, or "Access Denied" when its permission check fails
page_routing(auth, role, page) ==
    IF page \in DOMAIN required_permission
       /\ ~check_permission(auth, role, required_permission[page])
    THEN [screen |-> page, access |-> "denied"]
    ELSE [screen |-> page, access |-> "granted"]

\* the page a run shows when the Navigation selectbox has no state yet: the
\* first option
shown_page(role, page) ==
    IF page \in Range(available_options(role)) THEN page
    ELSE available_options(role)[1]

\* one run of main (lines 1164-1227): the login form and nothing else while
\* the session is not authenticated, the selected page otherwise
main(auth, role, page) ==
    IF ~auth THEN LoginForm
    ELSE page_routing(auth, role, shown_page(role, page))

\* the callers whose handler runs InterleavedSpec interleaves
Callers == {1, 2}

\* a caller with no handler run in progress
NoRun == [cmd |-> "none"]

NoCommand == [op |-> "none"]

\* The user is supplied by the (simulated) sign-on; the script only sets the
\* guest viewer when no user is present.
Init ==
    /\ user \in {[username |-> "guest", role |-> r] : r \in Roles}
    /\ main_view_mode = "Interactive Framework"
    /\ view_mode = "View"
    /\ heap = (1 :> InitialMainDomains) @@ (2 :> InitialSecondaryNodes)
                @@ (3 :> InitialProcessNodes) @@ (4 :> InitialConnections)
    /\ framework_data = [main_domains |-> 1, secondary_nodes |-> 2,
                         process_nodes |-> 3, connections |-> 4]
    /\ version_history = <<>>
    /\ last = NoCommand
    /\ authenticated = FALSE
    /\ user_role = PyNone
    /\ username = PyNone
    /\ selected_page = PyNone
    /\ rendered = main(FALSE, PyNone, PyNone)
    /\ pending = [c \in Callers |-> NoRun]

\* the role test with the viewer role let through
is_admin_any_role == user.role \in {"admin", "architect", "viewer"}

is_admin == user.role \in {"admin", "architect"}

\* the Management controls of the sidebar are rendered
Management ==
    /\ main_view_mode \in FrameworkViews
    /\ view_mode = "Management"
    /\ is_admin

\* list(main_domains.keys()) + list(secondary_nodes.keys()) + list(process_nodes.keys())
\* as a set: the options of the node pickers
NodeOptions(h, d) ==
    DOMAIN h[d.main_domains] \cup DOMAIN h[d.secondary_nodes] \cup DOMAIN h[d.process_nodes]

\* d[k] = v on a dict
Put(f, k, v) == [n \in DOMAIN f \cup {k} |-> IF n = k THEN v ELSE f[n]]

\* del d[k] for each k of ks
Del(f, ks) == [n \in DOMAIN f \ ks |-> f[n]]

\* [c for c in connections if keep(c)], with keep given as the set of kept pairs
SelectSeq2(s, kept) ==
    LET F[i \in 0..Len(s)] ==
            IF i = 0 THEN <<>>
            ELSE IF s[i] \in kept THEN Append(F[i - 1], s[i]) ELSE F[i - 1]
    IN F[Len(s)]

\* the new framework_data dict built from the four local objects
Rebuilt(d) ==
    [main_domains |-> d.main_domains, secondary_nodes |-> d.secondary_nodes,
     process_nodes |-> d.process_nodes, connections |-> d.connections]

(***************************************************************************)
(* Add Node (lines 318-365)                                                *)
(***************************************************************************)
TierOf(node_type) ==
    IF node_type = "Main Domain" THEN "main_domains"
    ELSE IF node_type = "Secondary Node" THEN "secondary_nodes"
    ELSE "process_nodes"

NewNode(in) ==
    IF in.node_type = "Main Domain"
    THEN MainNode(in.node_x, in.node_y, in.node_description,
                  in.node_risk_score, in.node_compliance)
    ELSE IF in.node_type = "Secondary Node"
    THEN SecondaryNode(in.node_x, in.node_y, in.parent_node, in.node_description,
                       in.node_risk_score, in.node_compliance)
    ELSE ProcessNode(in.node_x, in.node_y, in.node_description,
                     in.node_risk_score, in.node_compliance)

AddNode(in) ==
    /\ Management
    /\ Len(version_history) < MaxVersions
    /\ LET loaded == get_framework_data(heap)
           data == loaded.data
           errors == validate_node_input(heap, framework_data, in.node_name,
                        in.node_x, in.node_y, in.parent_node, in.node_type, FALSE)
       IN \* the options the form offers
          /\ in.parent_node \in
                 (IF in.node_type = "Secondary Node"
                  THEN {"None"} \cup DOMAIN loaded.heap[data.main_domains]
                  ELSE {PyNone})
          /\ Range(in.connect_to) \subseteq NodeOptions(loaded.heap, data)
          /\ IF errors # <<>>
             THEN /\ last' = [op |-> "AddNode", in |-> in, applied |-> FALSE,
                              errors |-> errors]
                  /\ UNCHANGED <<heap, framework_data, version_history>>
             ELSE LET vh == save_version(version_history, framework_data, user)
                      h1 == [loaded.heap EXCEPT ![data[TierOf(in.node_type)]] =
                                Put(@, in.node_name, NewNode(in))]
                      h2 == [h1 EXCEPT ![data.connections] =
                                @ \o [i \in 1..Len(in.connect_to) |->
                                         <<in.node_name, in.connect_to[i]>>]]
                  IN /\ version_history' = vh
                     /\ framework_data' = Rebuilt(data)
                     /\ heap' = Collect(h2, Rebuilt(data), vh)
                     /\ last' = [op |-> "AddNode", in |-> in, applied |-> TRUE,
                                 errors |-> <<>>]
    /\ UNCHANGED <<platform_vars, pending, user, main_view_mode, view_mode>>

(***************************************************************************)
(* Move Node (lines 367-396)                                               *)
(***************************************************************************)
\* node[name]["x"] = new_x; node[name]["y"] = new_y
Reposition(f, name, new_x, new_y) ==
    [f EXCEPT ![name] = [@ EXCEPT !.x = new_x, !.y = new_y]]

\* the bounds test of the Move Node handler with the Y range forgotten
move_out_of_bounds_x_only(new_x, new_y) == new_x < 0 \/ new_x > 10

\* the test of line 375
move_out_of_bounds(new_x, new_y) == new_x < 0 \/ new_x > 10 \/ new_y < 0 \/ new_y > 5

MoveNode(node_to_move, new_x, new_y) ==
    /\ Management
    /\ Len(version_history) < MaxVersions
    /\ LET loaded == get_framework_data(heap)
           data == loaded.data
           h0 == loaded.heap
       IN /\ node_to_move \in NodeOptions(h0, data)
          /\ IF move_out_of_bounds(new_x, new_y)
             THEN /\ last' = [op |-> "MoveNode", node |-> node_to_move, x |-> new_x,
                              y |-> new_y, applied |-> FALSE, errors |-> <<ErrBounds>>]
                  /\ UNCHANGED <<heap, framework_data, version_history>>
             ELSE LET vh == save_version(version_history, framework_data, user)
                      tier == IF node_to_move \in DOMAIN h0[data.main_domains]
                              THEN "main_domains"
                              ELSE IF node_to_move \in DOMAIN h0[data.secondary_nodes]
                              THEN "secondary_nodes"
                              ELSE "process_nodes"
                      h1 == [h0 EXCEPT ![data[tier]] =
                                Reposition(@, node_to_move, new_x, new_y)]
                  IN /\ version_history' = vh
                     /\ framework_data' = Rebuilt(data)
                     /\ heap' = Collect(h1, Rebuilt(data), vh)
                     /\ last' = [op |-> "MoveNode", node |-> node_to_move, x |-> new_x,
                                 y |-> new_y, applied |-> TRUE, errors |-> <<>>]
    /\ UNCHANGED <<platform_vars, pending, user, main_view_mode, view_mode>>

(***************************************************************************)
(* Manage Connections (lines 398-426)                                      *)
(***************************************************************************)
Connect(source_node, target_node) ==
    /\ Management
    /\ Len(version_history) < MaxVersions
    /\ LET loaded == get_framework_data(heap)
           data == loaded.data
           h0 == loaded.heap
           connections == h0[data.connections]
       IN /\ {source_node, target_node} \subseteq NodeOptions(h0, data)
          /\ IF source_node = target_node
             THEN /\ last' = [op |-> "Connect", source |-> source_node,
                              target |-> target_node, applied |-> FALSE,
                              errors |-> <<ErrSame>>]
                  /\ UNCHANGED <<heap, framework_data, version_history>>
             ELSE IF <<source_node, target_node>> \in Range(connections)
                     \/ <<target_node, source_node>> \in Range(connections)
             THEN /\ last' = [op |-> "Connect", source |-> source_node,
                              target |-> target_node, applied |-> FALSE,
                              errors |-> <<ErrExists>>]
                  /\ UNCHANGED <<heap, framework_data, version_history>>
             ELSE LET vh == save_version(version_history, framework_data, user)
                      h1 == [h0 EXCEPT ![data.connections] =
                                Append(@, <<source_node, target_node>>)]
                      fd == [framework_data EXCEPT !.connections = data.connections]
                  IN /\ version_history' = vh
                     /\ framework_data' = fd
                     /\ heap' = Collect(h1, fd, vh)
                     /\ last' = [op |-> "Connect", source |-> source_node,
                                 target |-> target_node, applied |-> TRUE,
                                 errors |-> <<>>]
    /\ UNCHANGED <<platform_vars, pending, user, main_view_mode, view_mode>>

\* list.remove(x): the list without its first element equal to x
\* (the list holds x whenever the handler gets here, see Disconnect)
Remove(s, x) ==
    LET i == Min({j \in DOMAIN s : s[j] = x})
    IN [j \in 1..(Len(s) - 1) |-> IF j < i THEN s[j] ELSE s[j + 1]]

\* what list.remove raises when the tuple is not in the list
ValueError == "ValueError: list.remove(x): x not in list"

\* The handler is given the label "s -> t"; no name of the model holds the
\* separator, so splitting the label gives the two names s and t back.  The
\* selectbox offers the labels of the entries of connections; a request for
\* another pair (the reversed orientation, or two unconnected nodes) reaches
\* line 423 after save_version has run, list.remove raises and the run ends
\* there: the version entry stays, the connections key is not assigned.
Disconnect(s, t) ==
    /\ Management
    /\ Len(version_history) < MaxVersions
    /\ LET loaded == get_framework_data(heap)
           data == loaded.data
           h0 == loaded.heap
           st == <<s, t>>
           vh == save_version(version_history, framework_data, user)
       IN IF st \in Range(h0[data.connections])
          THEN LET h1 == [h0 EXCEPT ![data.connections] = Remove(@, st)]
                   fd == [framework_data EXCEPT !.connections = data.connections]
               IN /\ version_history' = vh
                  /\ framework_data' = fd
                  /\ heap' = Collect(h1, fd, vh)
                  /\ last' = [op |-> "Disconnect", source |-> st[1], target |-> st[2],
                              applied |-> TRUE, errors |-> <<>>]
          ELSE /\ version_history' = vh
               /\ framework_data' = framework_data
               /\ heap' = Collect(h0, framework_data, vh)
               /\ last' = [op |-> "Disconnect", source |-> st[1], target |-> st[2],
                           applied |-> FALSE, errors |-> <<ValueError>>]
    /\ UNCHANGED <<platform_vars, pending, user, main_view_mode, view_mode>>

(***************************************************************************)
(* Delete Node (lines 428-453)                                             *)
(***************************************************************************)
DeleteNode(node_to_delete) ==
    /\ Management
    /\ Len(version_history) < MaxVersions
    /\ LET loaded == get_framework_data(heap)
           data == loaded.data
           h0 == loaded.heap
       IN /\ node_to_delete \in NodeOptions(h0, data)
          /\ LET vh == save_version(version_history, framework_data, user)
                 secondary_nodes_to_remove ==
                     {k \in DOMAIN h0[data.secondary_nodes] :
                         h0[data.secondary_nodes][k].parent = node_to_delete}
                 h1 == IF node_to_delete \in DOMAIN h0[data.main_domains]
                       THEN [h0 EXCEPT
                               ![data.main_domains] = Del(@, {node_to_delete}),
                               ![data.secondary_nodes] = Del(@, secondary_nodes_to_remove)]
                       ELSE IF node_to_delete \in DOMAIN h0[data.secondary_nodes]
                       THEN [h0 EXCEPT ![data.secondary_nodes] = Del(@, {node_to_delete})]
                       ELSE IF node_to_delete \in DOMAIN h0[data.process_nodes]
                       THEN [h0 EXCEPT ![data.process_nodes] = Del(@, {node_to_delete})]
                       ELSE h0
                 h2 == [h1 EXCEPT ![data.connections] =
                          SelectSeq2(@, {c \in Range(@) : node_to_delete \notin Range(c)})]
             IN /\ version_history' = vh
                /\ framework_data' = Rebuilt(data)
                /\ heap' = Collect(h2, Rebuilt(data), vh)
                /\ last' = [op |-> "DeleteNode", node |-> node_to_delete,
                            tier |-> IF node_to_delete \in DOMAIN h0[data.main_domains]
                                     THEN "main_domains"
                                     ELSE IF node_to_delete \in DOMAIN h0[data.secondary_nodes]
                                     THEN "secondary_nodes"
                                     ELSE "process_nodes",
                            cascaded |-> IF node_to_delete \in DOMAIN h0[data.main_domains]
                                         THEN secondary_nodes_to_remove ELSE {},
                            applied |-> TRUE, errors |-> <<>>]
    /\ UNCHANGED <<platform_vars, pending, user, main_view_mode, view_mode>>

(***************************************************************************)
(* Restore Version (main, lines 988-1027)                                  *)
(***************************************************************************)
\* Restore Version that also drops the entries after the restored one
Restore_truncating(selected_version) ==
    /\ main_view_mode = "Version History"
    /\ is_admin
    /\ version_history # <<>>
    /\ LET found == {j \in DOMAIN version_history :
                        version_history[j].version_id = selected_version}
       IN IF found # {}
          THEN LET i == Min(found)
                   fd == version_history[i].data
               IN /\ framework_data' = fd
                  /\ version_history' = SubSeq(version_history, 1, i)
                  /\ heap' = Collect(heap, fd, SubSeq(version_history, 1, i))
                  /\ last' = [op |-> "Restore", version |-> selected_version,
                              applied |-> TRUE, errors |-> <<>>]
          ELSE /\ UNCHANGED <<framework_data, heap, version_history>>
               /\ last' = [op |-> "Restore", version |-> selected_version,
                           applied |-> FALSE, errors |-> <<>>]
    /\ UNCHANGED <<platform_vars, pending, user, main_view_mode, view_mode>>

\* The loop of lines 1018-1023 takes the first entry of the history whose id
\* is the selected one.  The selectbox offers the ids of the history; for
\* another id the loop ends without a match: nothing is assigned and no
\* message is shown.
Restore(selected_version) ==
    /\ main_view_mode = "Version History"
    /\ is_admin
    /\ version_history # <<>>
    /\ LET found == {j \in DOMAIN version_history :
                        version_history[j].version_id = selected_version}
       IN IF found # {}
          THEN LET i == Min(found)
                   fd == version_history[i].data
               IN /\ framework_data' = fd
                  /\ version_history' = version_history
                  /\ heap' = Collect(heap, fd, version_history)
                  /\ last' = [op |-> "Restore", version |-> selected_version,
                              applied |-> TRUE, errors |-> <<>>]
          ELSE /\ UNCHANGED <<framework_data, heap, version_history>>
               /\ last' = [op |-> "Restore", version |-> selected_version,
                           applied |-> FALSE, errors |-> <<>>]
    /\ UNCHANGED <<platform_vars, pending, user, main_view_mode, view_mode>>

(***************************************************************************)
(* Navigation                                                              *)
(***************************************************************************)
\* the "Select View" radio.  The state of the "Mode" radio is dropped when
\* a run does not render it.
SelectView(v) ==
    /\ v # main_view_mode
    /\ main_view_mode' = v
    /\ view_mode' = IF v \in FrameworkViews /\ main_view_mode \in FrameworkViews
                    THEN view_mode ELSE "View"
    /\ last' = [op |-> "SelectView"]
    /\ UNCHANGED <<platform_vars, pending, user, heap, framework_data, version_history>>

\* the "Mode" radio: ["View", "Management"] if is_admin else ["View"]
SelectMode(m) ==
    /\ main_view_mode \in FrameworkViews
    /\ m \in (IF is_admin THEN {"View", "Management"} ELSE {"View"})
    /\ m # view_mode
    /\ view_mode' = m
    /\ last' = [op |-> "SelectMode"]
    /\ UNCHANGED <<platform_vars, pending, user, main_view_mode, heap, framework_data, version_history>>

(***************************************************************************)
(* Connection Matrix (show_detailed_view, lines 712-722)                   *)
(***************************************************************************)
\* The names of the model in an order that agrees, tier by tier, with the
\* order of the keys of the dicts: the keys of the initial literal in the
\* order written there, then the name a form can add.
KeyOrder == <<IAM, VM, AUTHZ, RRM, CM, "Auth">>

\* list(d.keys())
keys(d) == SelectSeq(KeyOrder, LAMBDA n : n \in DOMAIN d)

\* all_nodes of line 715; a name held by two tiers is listed twice
all_nodes(g) == keys(g.main_domains) \o keys(g.secondary_nodes) \o keys(g.process_nodes)

\* the matrix with the test of line 720 made for (node1, node2) only
connection_matrix_one_way(g) ==
    LET nodes == all_nodes(g)
    IN [i \in 1..Len(nodes) |->
          [j \in 1..Len(nodes) |->
              IF <<nodes[i], nodes[j]>> \in Range(g.connections) THEN 1 ELSE 0]]

\* matrix of lines 716-722, rows and columns counted from 1
connection_matrix(g) ==
    LET nodes == all_nodes(g)
    IN [i \in 1..Len(nodes) |->
          [j \in 1..Len(nodes) |->
              IF \/ <<nodes[i], nodes[j]>> \in Range(g.connections)
                 \/ <<nodes[j], nodes[i]>> \in Range(g.connections)
              THEN 1 ELSE 0]]

(***************************************************************************)
(* Detailed Analysis: domain table and exports (lines 628-925)             *)
(***************************************************************************)
\* the keys of a node dict in the order the literals of the source write them
AttrOrder == <<"x", "y", "color", "parent", "type", "description", "risk_score", "compliance">>

attrs(data) == SelectSeq(AttrOrder, LAMBDA a : a \in DOMAIN data)

\* len([c for c in connections if node in c])
connection_count(g, node) ==
    Cardinality({i \in DOMAIN g.connections : node \in Range(g.connections[i])})

\* sum(1 for node in secondary_nodes.values() if node["parent"] == domain)
secondary_count(g, domain) ==
    Cardinality({k \in DOMAIN g.secondary_nodes : g.secondary_nodes[k].parent = domain})

\* one row of domain_data
domain_row(g, node, type, data) ==
    [Domain |-> node, Type |-> type,
     Secondary_Nodes |-> IF type = "Main" THEN secondary_count(g, node) ELSE 0,
     Connections |-> connection_count(g, node),
     Description |-> data.description, Risk_Score |-> data.risk_score,
     Compliance |-> data.compliance]

\* domain_data of lines 662-695
domain_data(g) ==
    LET m == keys(g.main_domains)
        s == keys(g.secondary_nodes)
        p == keys(g.process_nodes)
    IN [i \in 1..Len(m) |-> domain_row(g, m[i], "Main", g.main_domains[m[i]])]
       \o [i \in 1..Len(s) |-> domain_row(g, s[i], "Secondary", g.secondary_nodes[s[i]])]
       \o [i \in 1..Len(p) |-> domain_row(g, p[i], "Process", g.process_nodes[p[i]])]

\* datetime.now().strftime(...), one value for every run
GeneratedDate == "<generated_date>"

\* json.dumps, as the tree of the text it writes: a dict becomes an object
\* (its members in key order), a list or tuple an array, a str a string, a
\* number a number.
json_attr(k, v) ==
    IF k \in {"x", "y", "risk_score"} THEN [number |-> v] ELSE [string |-> v]

json_node(data) ==
    [object |-> [i \in 1..Len(attrs(data)) |->
        [key |-> attrs(data)[i], value |-> json_attr(attrs(data)[i], data[attrs(data)[i]])]]]

json_tier(d) ==
    [object |-> [i \in 1..Len(keys(d)) |->
        [key |-> keys(d)[i], value |-> json_node(d[keys(d)[i]])]]]

json_connections(c) ==
    [array |-> [i \in 1..Len(c) |->
        [array |-> <<[string |-> c[i][1]], [string |-> c[i][2]]>>]]]

\* the JSON export with the connections left out of framework_export
toJSON_without_connections(g, user_name) ==
    [object |->
        << [key |-> "main_domains", value |-> json_tier(g.main_domains)],
           [key |-> "secondary_nodes", value |-> json_tier(g.secondary_nodes)],
           [key |-> "process_nodes", value |-> json_tier(g.process_nodes)],
           [key |-> "connections", value |-> json_connections(<<>>)],
           [key |-> "generated_date", value |-> [string |-> GeneratedDate]],
           [key |-> "version", value |-> [string |-> "4.0"]],
           [key |-> "user", value |-> [string |-> user_name]] >>]

\* json.dumps(framework_export) of lines 794-806
toJSON(g, user_name) ==
    [object |->
        << [key |-> "main_domains", value |-> json_tier(g.main_domains)],
           [key |-> "secondary_nodes", value |-> json_tier(g.secondary_nodes)],
           [key |-> "process_nodes", value |-> json_tier(g.process_nodes)],
           [key |-> "connections", value |-> json_connections(g.connections)],
           [key |-> "generated_date", value |-> [string |-> GeneratedDate]],
           [key |-> "version", value |-> [string |-> "4.0"]],
           [key |-> "user", value |-> [string |-> user_name]] >>]

\* Reading the export back.  The source has no import; this is the inverse
\* the persisted layout asks for: the four keys main_domains,
\* secondary_nodes, process_nodes and connections (an array of two-name
\* arrays) are read, the other members are ignored.
json_member(o, k) ==
    o.object[CHOOSE i \in DOMAIN o.object : o.object[i].key = k].value

from_json_attr(v) == IF "number" \in DOMAIN v THEN v.number ELSE v.string

from_json_node(o) ==
    [k \in {o.object[i].key : i \in DOMAIN o.object} |->
        from_json_attr(json_member(o, k))]

from_json_tier(o) ==
    [k \in {o.object[i].key : i \in DOMAIN o.object} |->
        from_json_node(json_member(o, k))]

from_json_connections(a) ==
    [i \in 1..Len(a.array) |->
        <<a.array[i].array[1].string, a.array[i].array[2].string>>]

fromJSON(j) ==
    [main_domains |-> from_json_tier(json_member(j, "main_domains")),
     secondary_nodes |-> from_json_tier(json_member(j, "secondary_nodes")),
     process_nodes |-> from_json_tier(json_member(j, "process_nodes")),
     connections |-> from_json_connections(json_member(j, "connections"))]

\* str() of a number
str(n) == ToString(n)

\* one row of export_data, as the cells of the line to_csv writes
csv_row(g, node, type, data) ==
    << node, type, str(data.x), str(data.y), data.color,
       IF type = "Secondary" THEN data.parent ELSE "",
       str(connection_count(g, node)), data.description,
       str(data.risk_score), data.compliance >>

\* export_df.to_csv(index=False) of lines 816-861: the header and the rows
toCSV(g) ==
    LET m == keys(g.main_domains)
        s == keys(g.secondary_nodes)
        p == keys(g.process_nodes)
    IN << <<"Node", "Type", "X", "Y", "Color", "Parent", "Connections",
            "Description", "Risk Score", "Compliance">> >>
       \o [i \in 1..Len(m) |-> csv_row(g, m[i], "Main Domain", g.main_domains[m[i]])]
       \o [i \in 1..Len(s) |-> csv_row(g, s[i], "Secondary", g.secondary_nodes[s[i]])]
       \o [i \in 1..Len(p) |-> csv_row(g, p[i], "Process", g.process_nodes[p[i]])]

\* a Node element: its attributes in the order they are set
xml_node(name, data, extra) ==
    [tag |-> "Node",
     attributes |-> << <<"name", name>>, <<"x", str(data.x)>>, <<"y", str(data.y)>>,
                       <<"color", data.color>> >>
                    \o extra
                    \o << <<"description", data.description>>,
                          <<"risk_score", str(data.risk_score)>>,
                          <<"compliance", data.compliance>> >>,
     children |-> <<>>]

\* ET.tostring(root) of lines 872-918, as the tree of the document
toXML(g, user_name) ==
    LET m == keys(g.main_domains)
        s == keys(g.secondary_nodes)
        p == keys(g.process_nodes)
    IN [tag |-> "SABSAFramework",
        attributes |-> << <<"version", "4.0">>, <<"generated_date", GeneratedDate>>,
                          <<"user", user_name>> >>,
        children |->
          << [tag |-> "MainDomains", attributes |-> <<>>,
              children |-> [i \in 1..Len(m) |->
                  xml_node(m[i], g.main_domains[m[i]], <<>>)]],
             [tag |-> "SecondaryNodes", attributes |-> <<>>,
              children |-> [i \in 1..Len(s) |->
                  xml_node(s[i], g.secondary_nodes[s[i]],
                           << <<"parent", g.secondary_nodes[s[i]].parent>> >>)]],
             [tag |-> "ProcessNodes", attributes |-> <<>>,
              children |-> [i \in 1..Len(p) |->
                  xml_node(p[i], g.process_nodes[p[i]],
                           << <<"type", g.process_nodes[p[i]].type>> >>)]],
             [tag |-> "Connections", attributes |-> <<>>,
              children |-> [i \in 1..Len(g.connections) |->
                  [tag |-> "Connection",
                   attributes |-> << <<"source", g.connections[i][1]>>,
                                     <<"target", g.connections[i][2]>> >>,
                   children |-> <<>>]]] >>]

\* The view is open to every role.  It reads the four objects that
\* create_interactive_framework returns, the ones get_framework_data gave
\* that run; they are dropped when the run ends.
\* a run of the view with no button pressed: the domain table and the matrix
ShowDetailedView ==
    /\ main_view_mode = "Detailed Analysis"
    /\ LET loaded == get_framework_data(heap)
           g == Deref(loaded.heap, loaded.data)
       IN /\ last' = [op |-> "ShowDetailedView", domain_data |-> domain_data(g),
                      matrix |-> connection_matrix(g)]
          /\ heap' = Collect(loaded.heap, framework_data, version_history)
    /\ UNCHANGED <<platform_vars, pending, user, main_view_mode, view_mode, framework_data, version_history>>

\* Export as JSON that takes a snapshot first, as the editing handlers do
ExportJSON_saving_version ==
    /\ main_view_mode = "Detailed Analysis"
    /\ Len(version_history) < MaxVersions
    /\ LET loaded == get_framework_data(heap)
           g == Deref(loaded.heap, loaded.data)
           vh == save_version(version_history, framework_data, user)
       IN /\ last' = [op |-> "ExportJSON", out |-> toJSON(g, user.username)]
          /\ version_history' = vh
          /\ heap' = Collect(loaded.heap, framework_data, vh)
    /\ UNCHANGED <<platform_vars, pending, user, main_view_mode, view_mode, framework_data>>

\* "Export as JSON" (lines 793-813)
ExportJSON ==
    /\ main_view_mode = "Detailed Analysis"
    /\ LET loaded == get_framework_data(heap)
           g == Deref(loaded.heap, loaded.data)
       IN /\ last' = [op |-> "ExportJSON", out |-> toJSON(g, user.username)]
          /\ heap' = Collect(loaded.heap, framework_data, version_history)
    /\ UNCHANGED <<platform_vars, pending, user, main_view_mode, view_mode, framework_data, version_history>>

\* "Export as CSV" (lines 815-869)
ExportCSV ==
    /\ main_view_mode = "Detailed Analysis"
    /\ LET loaded == get_framework_data(heap)
           g == Deref(loaded.heap, loaded.data)
       IN /\ last' = [op |-> "ExportCSV", out |-> toCSV(g)]
          /\ heap' = Collect(loaded.heap, framework_data, version_history)
    /\ UNCHANGED <<platform_vars, pending, user, main_view_mode, view_mode, framework_data, version_history>>

\* "Export as XML" (lines 871-925)
ExportXML ==
    /\ main_view_mode = "Detailed Analysis"
    /\ LET loaded == get_framework_data(heap)
           g == Deref(loaded.heap, loaded.data)
       IN /\ last' = [op |-> "ExportXML", out |-> toXML(g, user.username)]
          /\ heap' = Collect(loaded.heap, framework_data, version_history)
    /\ UNCHANGED <<platform_vars, pending, user, main_view_mode, view_mode, framework_data, version_history>>

Next ==
    \/ \E in \in AddNodeInputs : AddNode(in)
    \/ \E n \in MovedNodes, p \in MovePositions : MoveNode(n, p[1], p[2])
    \/ \E p \in PickedPairs : Connect(p[1], p[2])
    \/ \E p \in RemovedPairs : Disconnect(p[1], p[2])
    \/ \E n \in PickedNodes : DeleteNode(n)
    \/ \E v \in 1..MaxVersions : Restore(v)
    \/ \E v \in Views : SelectView(v)
    \/ \E m \in {"View", "Management"} : SelectMode(m)
    \/ ShowDetailedView
    \/ ExportJSON
    \/ ExportCSV
    \/ ExportXML

Spec == Init /\ [][Next]_vars

(***************************************************************************)
(* Two handler runs on one session, interleaved                            *)
(*                                                                         *)
(* Streamlit runs the script of a session one run at a time, so Spec has   *)
(* no such behaviour.  InterleavedSpec is the same handler code with that  *)
(* serialisation taken away: a run of Add Node is split where the code     *)
(* goes from validate_node_input (line 332) to save_version and the        *)
(* assignments (lines 337-363), a run of Delete Node where the button is   *)
(* read (line 432), and the two halves of different callers interleave.    *)
(* No lock is taken anywhere in the source.                                *)
(***************************************************************************)
\* the Add Node requests and the Delete Node request that are interleaved
RacingAdds ==
    { AddInput("Main Domain", "Auth", 2, 3, PyNone, <<>>),
      AddInput("Process Node", "Auth", 2, 3, PyNone, <<>>),
      AddInput("Secondary Node", "Auth", 2, 3, IAM, <<>>) }

RacingDeletes == {IAM}

\* the objects held by the runs in progress
PendingRefs(pd) ==
    UNION {IF pd[c].cmd = "none" THEN {} ELSE Refs(pd[c].data) : c \in Callers}

\* Collect, with the objects of the runs in progress kept
CollectKeeping(h, fd, vh, pd) ==
    LET live == Refs(fd) \cup UNION {Refs(vh[i].data) : i \in DOMAIN vh}
                   \cup PendingRefs(pd)
    IN [id \in DOMAIN h \cap live |-> h[id]]

\* the runs still in progress learn of the command applied under them
Overtake(pd, c, what) ==
    [o \in Callers |->
        IF o = c THEN NoRun
        ELSE IF pd[o].cmd = "none" THEN pd[o]
        ELSE [pd[o] EXCEPT !.overtaken_by = Append(@, what)]]

\* Add Node up to and including validate_node_input, for an accepted request
BeginAddNode(c, in) ==
    /\ Management
    /\ pending[c] = NoRun
    /\ LET loaded == get_framework_data(heap)
           errors == validate_node_input(heap, framework_data, in.node_name,
                        in.node_x, in.node_y, in.parent_node, in.node_type, FALSE)
       IN /\ errors = <<>>
          /\ pending' = [pending EXCEPT ![c] =
                 [cmd |-> "AddNode", in |-> in, data |-> loaded.data,
                  overtaken_by |-> <<>>]]
          /\ heap' = loaded.heap
          /\ last' = [op |-> "BeginAddNode", caller |-> c]
    /\ UNCHANGED <<platform_vars, user, main_view_mode, view_mode, framework_data,
                   version_history>>

\* Add Node from save_version on (lines 337-363)
ApplyAddNode(c) ==
    /\ pending[c].cmd = "AddNode"
    /\ Len(version_history) < MaxVersions
    /\ LET in == pending[c].in
           data == pending[c].data
           vh == save_version(version_history, framework_data, user)
           h1 == [heap EXCEPT ![data[TierOf(in.node_type)]] =
                     Put(@, in.node_name, NewNode(in))]
           h2 == [h1 EXCEPT ![data.connections] =
                     @ \o [i \in 1..Len(in.connect_to) |->
                              <<in.node_name, in.connect_to[i]>>]]
           pd == Overtake(pending, c, [cmd |-> "AddNode", in |-> in])
       IN /\ version_history' = vh
          /\ framework_data' = Rebuilt(data)
          /\ heap' = CollectKeeping(h2, Rebuilt(data), vh, pd)
          /\ pending' = pd
          /\ last' = [op |-> "AddNode", in |-> in, applied |-> TRUE, errors |-> <<>>]
    /\ UNCHANGED <<platform_vars, user, main_view_mode, view_mode>>

\* Delete Node up to the button (lines 430-432)
BeginDeleteNode(c, node_to_delete) ==
    /\ Management
    /\ pending[c] = NoRun
    /\ LET loaded == get_framework_data(heap)
       IN /\ node_to_delete \in NodeOptions(loaded.heap, loaded.data)
          /\ pending' = [pending EXCEPT ![c] =
                 [cmd |-> "DeleteNode", node |-> node_to_delete, data |-> loaded.data,
                  overtaken_by |-> <<>>]]
          /\ heap' = loaded.heap
          /\ last' = [op |-> "BeginDeleteNode", caller |-> c]
    /\ UNCHANGED <<platform_vars, user, main_view_mode, view_mode, framework_data,
                   version_history>>

\* Delete Node from save_version on (lines 433-451)
ApplyDeleteNode(c) ==
    /\ pending[c].cmd = "DeleteNode"
    /\ Len(version_history) < MaxVersions
    /\ LET node_to_delete == pending[c].node
           data == pending[c].data
           vh == save_version(version_history, framework_data, user)
           secondary_nodes_to_remove ==
               {k \in DOMAIN heap[data.secondary_nodes] :
                   heap[data.secondary_nodes][k].parent = node_to_delete}
           h1 == IF node_to_delete \in DOMAIN heap[data.main_domains]
                 THEN [heap EXCEPT
                         ![data.main_domains] = Del(@, {node_to_delete}),
                         ![data.secondary_nodes] = Del(@, secondary_nodes_to_remove)]
                 ELSE IF node_to_delete \in DOMAIN heap[data.secondary_nodes]
                 THEN [heap EXCEPT ![data.secondary_nodes] = Del(@, {node_to_delete})]
                 ELSE IF node_to_delete \in DOMAIN heap[data.process_nodes]
                 THEN [heap EXCEPT ![data.process_nodes] = Del(@, {node_to_delete})]
                 ELSE heap
           h2 == [h1 EXCEPT ![data.connections] =
                    SelectSeq2(@, {x \in Range(@) : node_to_delete \notin Range(x)})]
           pd == Overtake(pending, c, [cmd |-> "DeleteNode", node |-> node_to_delete])
       IN /\ version_history' = vh
          /\ framework_data' = Rebuilt(data)
          /\ heap' = CollectKeeping(h2, Rebuilt(data), vh, pd)
          /\ pending' = pd
          /\ last' = [op |-> "DeleteNode", node |-> node_to_delete,
                      applied |-> TRUE, errors |-> <<>>]
    /\ UNCHANGED <<platform_vars, user, main_view_mode, view_mode>>

InterleavedNext ==
    \/ \E m \in {"View", "Management"} : SelectMode(m)
    \/ \E c \in Callers, in \in RacingAdds : BeginAddNode(c, in)
    \/ \E c \in Callers : ApplyAddNode(c)
    \/ \E c \in Callers, n \in RacingDeletes : BeginDeleteNode(c, n)
    \/ \E c \in Callers : ApplyDeleteNode(c)

InterleavedSpec == Init /\ [][InterleavedNext]_vars

(***************************************************************************)
(* Enterprise platform: Login, Logout and Navigation                       *)
(***************************************************************************)
\* the names typed into the Username field
Usernames == {"", "alice", "bob"}

\* the graph application is not touched by the platform app
sabsa_vars == <<user, main_view_mode, view_mode, heap, framework_data,
                version_history, last, pending>>

\* The Login button (lines 1181-1186): the session is marked authenticated
\* and st.rerun() starts a new run, which renders the first page of the
\* role's navigation list.
Login(name, role) ==
    /\ ~authenticated
    /\ authenticated' = TRUE
    /\ user_role' = role
    /\ username' = name
    /\ selected_page' = shown_page(role, PyNone)
    /\ rendered' = main(TRUE, role, selected_page')
    /\ UNCHANGED sabsa_vars

\* The Logout button (lines 1193-1195): authenticated is cleared, user_role
\* and username stay, and st.rerun() starts a new run.  The Navigation
\* selectbox is not rendered by that run and loses its state.
Logout ==
    /\ authenticated
    /\ authenticated' = FALSE
    /\ selected_page' = PyNone
    /\ rendered' = main(FALSE, user_role, PyNone)
    /\ UNCHANGED <<user_role, username, sabsa_vars>>

\* a choice in the Navigation selectbox (lines 1207-1227)
SelectPage(page) ==
    /\ authenticated
    /\ page \in Range(available_options(user_role))
    /\ page # selected_page
    /\ selected_page' = page
    /\ rendered' = main(authenticated, user_role, page)
    /\ UNCHANGED <<authenticated, user_role, username, sabsa_vars>>

Pages ==
    {"Executive Dashboard", "Risk Management", "Compliance", "Threat Intelligence",
     "Metrics & KPIs", "System Integrations", "SABSA Framework"}

PlatformNext ==
    \/ \E name \in Usernames, role \in DOMAIN roles : Login(name, role)
    \/ Logout
    \/ \E page \in Pages : SelectPage(page)

PlatformSpec == Init /\ [][PlatformNext]_vars

(***************************************************************************)
(* The graph state and the version entries, by value                       *)
(***************************************************************************)
\* the live graph state
Live == Deref(heap, framework_data)

\* the graph state recorded in the i-th version entry
VersionState(i) == Deref(heap, version_history[i].data)

AllNames(g) ==
    DOMAIN g.main_domains \cup DOMAIN g.secondary_nodes \cup DOMAIN g.process_nodes

NodeCount(g) ==
    Cardinality(DOMAIN g.main_domains) + Cardinality(DOMAIN g.secondary_nodes)
        + Cardinality(DOMAIN g.process_nodes)

MutatingOps == {"AddNode", "MoveNode", "Connect", "Disconnect", "DeleteNode"}

(***************************************************************************)
(* Claims                                                                  *)
(***************************************************************************)
\* C1: after DeleteNode(D) on a Domain D, D and every Capability whose
\* parent was D are gone and no edge of the edge list has an endpoint that
\* is D or one of those Capabilities.
C1_DeleteDomainLeavesNoEdgeOfDeleted ==
    (last.op = "DeleteNode" /\ last.tier = "main_domains") =>
        LET deleted == {last.node} \cup last.cascaded
        IN /\ last.node \notin DOMAIN Live.main_domains
           /\ last.cascaded \cap DOMAIN Live.secondary_nodes = {}
           /\ \A c \in Range(Live.connections) :
                  c[1] \notin deleted /\ c[2] \notin deleted

\* C2: no step changes the graph state recorded in a version entry that
\* exists before the step.
C2_VersionEntriesNeverChange ==
    [][\A i \in DOMAIN version_history :
          /\ i \in DOMAIN version_history'
          /\ Deref(heap', version_history'[i].data) = VersionState(i)]_vars

\* an entry was restored and the live graph edited afterwards: the second
\* snapshot holds the very objects of the first, and the live state differs
C2_Witness ==
    /\ Len(version_history) = 2
    /\ version_history[2].data = version_history[1].data
    /\ last.op = "MoveNode" /\ last.applied
    /\ Live # VersionState(1)

\* C3: the entry appended by a successful AddNode, MoveNode, Connect,
\* Disconnect or DeleteNode records the graph state from before the
\* operation, and restoring an entry makes the live state the one recorded.
C3_SnapshotIsPriorState ==
    [][/\ (last'.op \in MutatingOps /\ last'.applied) =>
            /\ Len(version_history') = Len(version_history) + 1
            /\ Deref(heap', version_history'[Len(version_history')].data) = Live
       /\ (last'.op = "Restore" /\ last'.applied) =>
            \E i \in DOMAIN version_history :
                /\ version_history[i].version_id = last'.version
                /\ Live' = VersionState(i)]_vars

\* a node was added and the entry appended by that AddNode does not hold it
C3_Witness ==
    /\ last.op = "AddNode" /\ last.applied
    /\ last.in.node_name \in AllNames(Live)
    /\ last.in.node_name \notin AllNames(VersionState(Len(version_history)))

\* C4: no node name occurs in more than one of the three tiers.
C4_NamesUniqueAcrossTiers ==
    \A t1, t2 \in Tiers : t1 # t2 => DOMAIN Live[t1] \cap DOMAIN Live[t2] = {}

\* C5: every edge (A, B) of the connection list has A different from B.
C5_NoSelfEdge ==
    \A c \in Range(Live.connections) : c[1] # c[2]

\* C6: the parent of every secondary node is the name of a node of
\* main_domains.
C6_ParentIsExistingDomain ==
    \A n \in DOMAIN Live.secondary_nodes :
        Live.secondary_nodes[n].parent \in DOMAIN Live.main_domains

\* a Capability was added under the parent chosen in the form
C6_Witness ==
    /\ last.op = "AddNode" /\ last.applied
    /\ last.in.node_type = "Secondary Node"
    /\ last.in.node_name \in DOMAIN Live.secondary_nodes
    /\ Live.secondary_nodes[last.in.node_name].parent = last.in.parent_node

\* C7: every node of every tier has 0 <= x <= 10 and 0 <= y <= 5.
C7_CoordinatesWithinBounds ==
    \A t \in Tiers : \A n \in DOMAIN Live[t] :
        /\ 0 <= Live[t][n].x /\ Live[t][n].x <= 10
        /\ 0 <= Live[t][n].y /\ Live[t][n].y <= 5

\* a node was moved to the position asked for
C7_Witness ==
    /\ last.op = "MoveNode" /\ last.applied
    /\ \E t \in Tiers : /\ last.node \in DOMAIN Live[t]
                        /\ Live[t][last.node].x = last.x
                        /\ Live[t][last.node].y = last.y

\* C8: AddNode with a name that some tier of the session's framework data
\* holds is rejected with the uniqueness violation and changes neither the
\* tiers, the edge list nor the version history.
C8_DuplicateNameRejected ==
    [][(last'.op = "AddNode" /\ last'.in.node_name \in AllNames(Live)) =>
          /\ ~last'.applied
          /\ ErrUnique \in Range(last'.errors)
          /\ Live' = Live
          /\ Len(version_history') = Len(version_history)
          /\ \A i \in DOMAIN version_history :
                /\ version_history'[i] = version_history[i]
                /\ Deref(heap', version_history'[i].data) = VersionState(i)]_vars

\* a Process node was asked for under the name of a secondary node
C8_Witness ==
    /\ last.op = "AddNode" /\ ~last.applied
    /\ last.in.node_type = "Process Node"
    /\ last.in.node_name \in DOMAIN Live.secondary_nodes
    /\ last.in.node_name \notin DOMAIN Live.process_nodes
    /\ ErrUnique \in Range(last.errors)

\* C9: an AddNode that passes validation leaves one node more than before,
\* one name more than before, and every node that existed as it was.
C9_AddNodeAddsExactlyOne ==
    [][(last'.op = "AddNode" /\ last'.applied) =>
          /\ NodeCount(Live') = NodeCount(Live) + 1
          /\ AllNames(Live') = AllNames(Live) \cup {last'.in.node_name}
          /\ last'.in.node_name \notin AllNames(Live)
          /\ \A t \in Tiers : \A n \in DOMAIN Live[t] :
                n \in DOMAIN Live'[t] /\ Live'[t][n] = Live[t][n]]_vars

\* C10: Connect(a, b) with a = b, or with an edge between a and b in the
\* edge list in either orientation, is rejected and changes neither the
\* edge list nor the version history.
C10_ConnectRejectsSelfAndDuplicate ==
    [][(/\ last'.op = "Connect"
        /\ \/ last'.source = last'.target
           \/ <<last'.source, last'.target>> \in Range(Live.connections)
           \/ <<last'.target, last'.source>> \in Range(Live.connections)) =>
          /\ ~last'.applied
          /\ Live'.connections = Live.connections
          /\ version_history' = version_history]_vars

\* C11: MoveNode with x outside [0, 10] or y outside [0, 5] is rejected with
\* the out-of-bounds message and changes neither a node, the edge list nor
\* the version history.
C11_MoveOutOfBoundsRejected ==
    [][(/\ last'.op = "MoveNode"
        /\ \/ last'.x < 0 \/ last'.x > 10
           \/ last'.y < 0 \/ last'.y > 5) =>
          /\ ~last'.applied
          /\ ErrBounds \in Range(last'.errors)
          /\ Live' = Live
          /\ Len(version_history') = Len(version_history)
          /\ \A i \in DOMAIN version_history :
                /\ version_history'[i] = version_history[i]
                /\ Deref(heap', version_history'[i].data) = VersionState(i)]_vars

\* a move to y = 6 was asked for and the node is where it was
C11_Witness ==
    /\ last.op = "MoveNode" /\ ~last.applied
    /\ last.y > 5 /\ last.x <= 10
    /\ ErrBounds \in Range(last.errors)
    /\ last.node \in DOMAIN Live.main_domains
    /\ Live.main_domains[last.node].y # last.y

DeleteScope(g, n, t) ==
    IF n \in DOMAIN g.main_domains
    THEN IF t = "main_domains" THEN {n}
         ELSE IF t = "secondary_nodes"
         THEN {k \in DOMAIN g.secondary_nodes : g.secondary_nodes[k].parent = n}
         ELSE {}
    ELSE IF n \in DOMAIN g.secondary_nodes
    THEN IF t = "secondary_nodes" THEN {n} ELSE {}
    ELSE IF t = "process_nodes" THEN {n} ELSE {}

C16_HistoryAppendOnly ==
    [][/\ Len(version_history') >= Len(version_history)
       /\ \A i \in DOMAIN version_history : version_history'[i] = version_history[i]
       /\ (last'.op = "Restore") => version_history' = version_history
       /\ (last'.op \in MutatingOps /\ last'.applied) =>
             Len(version_history') = Len(version_history) + 1]_vars

\* the first of two entries was restored, and both entries are still there
C16_Witness ==
    /\ last.op = "Restore" /\ last.applied /\ last.version = 1
    /\ Len(version_history) = 2
    /\ Live = VersionState(1)
    /\ Live # VersionState(2)

C18_ViewerChangesNothing ==
    user.role \notin {"admin", "architect"} =>
        /\ Live = InitialFrameworkData
        /\ version_history = <<>>
        /\ view_mode = "View"
        /\ last.op \notin MutatingOps \cup {"Restore"}

\* a viewer has opened the Version History view
C18_Witness ==
    /\ user.role = "viewer"
    /\ main_view_mode = "Version History"
    /\ last.op = "SelectView"

\* C19: the connection matrix of the graph, over the main domains, then the
\* secondary nodes, then the process nodes, is symmetric, and a cell is 1
\* exactly when the connection list holds an edge joining the two nodes of
\* the cell in one orientation or the other, and 0 otherwise.
C19_MatrixSymmetric ==
    LET nodes == all_nodes(Live)
        matrix == connection_matrix(Live)
    IN \A i, j \in 1..Len(nodes) :
          /\ matrix[i][j] = matrix[j][i]
          /\ matrix[i][j] \in {0, 1}
          /\ matrix[i][j] = 1 <=>
                \E c \in Range(Live.connections) : {c[1], c[2]} = {nodes[i], nodes[j]}

\* an edge was added and the cell of its reversed pair, which the
\* connection list does not hold, is 1
C19_Witness ==
    /\ last.op = "Connect" /\ last.applied
    /\ <<last.target, last.source>> \notin Range(Live.connections)
    /\ LET nodes == all_nodes(Live)
       IN \E i, j \in 1..Len(nodes) :
             /\ nodes[i] = last.target /\ nodes[j] = last.source
             /\ connection_matrix(Live)[i][j] = 1

\* C20: every cell of the diagonal of the connection matrix is 0.
C20_MatrixDiagonalZero ==
    \A i \in 1..Len(all_nodes(Live)) : connection_matrix(Live)[i][i] = 0

\* the analytics run and the three exports
ReadingOps == {"ShowDetailedView", "ExportJSON", "ExportCSV", "ExportXML"}

\* C21: a run of the analytics (domain table, connection matrix) or of the
\* JSON, CSV or XML export leaves the three tiers, the connection list and
\* the version history, entries and recorded states, as they were.
C21_ReadsChangeNothing ==
    [][(last'.op \in ReadingOps) =>
          /\ Live' = Live
          /\ version_history' = version_history
          /\ \A i \in DOMAIN version_history :
                Deref(heap', version_history'[i].data) = VersionState(i)]_vars

\* the JSON export ran on a session whose graph was edited before
C21_Witness ==
    /\ last.op = "ExportJSON"
    /\ Live # InitialFrameworkData
    /\ version_history # <<>>

\* the graph g has no name in two tiers, no edge from a node to itself, and
\* every secondary node's parent is one of its main domains
WellFormed(g) ==
    /\ \A t1, t2 \in Tiers : t1 # t2 => DOMAIN g[t1] \cap DOMAIN g[t2] = {}
    /\ \A c \in Range(g.connections) : c[1] # c[2]
    /\ \A k \in DOMAIN g.secondary_nodes :
          g.secondary_nodes[k].parent \in DOMAIN g.main_domains

C23_EntryPerSuccessfulChange ==
    [][LET nothing_to_delete ==
               last'.op = "DeleteNode" /\ last'.node \notin AllNames(Live)
       IN IF last'.op \in MutatingOps
          THEN IF last'.applied /\ ~nothing_to_delete
               THEN Len(version_history') = Len(version_history) + 1
               ELSE version_history' = version_history
          ELSE version_history' = version_history]_vars

\* the tier whose node a command on name n addresses in graph g: the first
\* of main_domains, secondary_nodes, process_nodes that holds n
FirstTierOf(g, n) ==
    IF n \in DOMAIN g.main_domains THEN "main_domains"
    ELSE IF n \in DOMAIN g.secondary_nodes THEN "secondary_nodes"
    ELSE "process_nodes"

\* C24: an applied MoveNode(name, x, y) sets the x and y of the node called
\* name and changes nothing else: the node keeps its tier and its other
\* attributes, every other node is as it was, no node appears or
\* disappears, and the connection list is unchanged.
C24_MoveChangesOnlyPosition ==
    [][(last'.op = "MoveNode" /\ last'.applied) =>
          /\ Live'.connections = Live.connections
          /\ \A t \in Tiers :
                /\ DOMAIN Live'[t] = DOMAIN Live[t]
                /\ \A k \in DOMAIN Live[t] :
                      Live'[t][k] =
                          IF k = last'.node /\ t = FirstTierOf(Live, k)
                          THEN [Live[t][k] EXCEPT !.x = last'.x, !.y = last'.y]
                          ELSE Live[t][k]]_vars

\* C26: after DeleteNode(name) no tier holds a node called name, and every
\* edge whose two ends are still names of nodes is still in the connection
\* list.
C26_DeletedNameGoneEdgesKept ==
    [][(last'.op = "DeleteNode") =>
          /\ last'.node \notin AllNames(Live')
          /\ \A c \in Range(Live.connections) :
                (c[1] \in AllNames(Live') /\ c[2] \in AllNames(Live'))
                    => c \in Range(Live'.connections)]_vars

\* C27: what one applied command added is still there after the next
\* applied command unless that command removes it: AddNode, MoveNode and
\* Connect keep every node name and every edge of the graph, Disconnect
\* keeps every node name and every edge but the one it names, DeleteNode
\* keeps every node it does not delete.
C27_MutationsAccumulate ==
    [][(last'.op \in MutatingOps /\ last'.applied) =>
          /\ \A t \in Tiers :
                DOMAIN Live[t] \ (IF last'.op = "DeleteNode"
                                  THEN DeleteScope(Live, last'.node, t) ELSE {})
                    \subseteq DOMAIN Live'[t]
          /\ last'.op \in {"AddNode", "MoveNode", "Connect"} =>
                Range(Live.connections) \subseteq Range(Live'.connections)
          /\ last'.op = "Disconnect" =>
                Range(Live.connections) \ {<<last'.source, last'.target>>}
                    \subseteq Range(Live'.connections)]_vars

\* C28: the connection list holds no pair twice and no pair together with
\* its reverse.
C28_NoDuplicateEdge ==
    \A i, j \in DOMAIN Live.connections :
        i # j => /\ Live.connections[i] # Live.connections[j]
                 /\ Live.connections[i] #
                        <<Live.connections[j][2], Live.connections[j][1]>>

\* C29: whatever page of the navigation list of their role an authenticated
\* user has selected, the page's module has let them in: the run never
\* shows Access Denied.
C29_OfferedPagesPermitted ==
    authenticated => rendered.access = "granted"

\* C30: while the session is not authenticated the run shows the login form
\* and no page, check_permission fails for every permission, and this is
\* so again after a Logout, until the next Login.
C30_NoPageWithoutLogin ==
    ~authenticated =>
        /\ rendered = LoginForm
        /\ \A r \in DOMAIN roles :
              \A q \in Range(roles[r]) : ~check_permission(authenticated, user_role, q)

\* a user has logged in as Executive, seen a page and logged out
C30_Witness ==
    /\ ~authenticated
    /\ user_role = "Executive"
    /\ username = "alice"
    /\ rendered = LoginForm

====
